---- MODULE Spec2Model ----
(***************************************************************************)
(* A model of scripts/package_skill.py: validate_skill, package_skill and  *)
(* main, over a small file system.                                         *)
(*                                                                         *)
(* Text is a sequence of lines.  A line is a record [kind, key, val]; val  *)
(* holds the line's scalar split on "/" (so "../x" is <<"..", "x">>).      *)
(* Paths are pathlib paths: [abs, parts], handled lexically as pathlib     *)
(* does, and resolved against the file system only by the operations that  *)
(* touch it.                                                               *)
(***************************************************************************)
EXTENDS Integers, Sequences, FiniteSets, TLC

VARIABLES
    cwd,      \* the process's working directory, an absolute path
    dirs,     \* the directories of the file system (absolute paths)
    files,    \* the regular files: absolute path -> file data
    pc,       \* main's position
    args,     \* the parsed command line: [skill_dir, output_dir]
    called,   \* the functions main has called in this run, in order
    vres,     \* what validate_skill did in this run
    pk,       \* package_skill's locals
    stdout,   \* the diagnostic lines printed in this run
    exit,     \* the exit status of the run ("running" until it ends)
    dirs0,    \* history: dirs when the run started
    files0,   \* history: files when the run started
    runs,     \* number of runs started
    vIn,      \* validate_skill alone: the SKILL.md it is given
    vOut      \* validate_skill alone: its outcome

mainVars == <<cwd, dirs, files, pc, args, called, vres, pk, stdout, exit,
              dirs0, files0, runs>>
valVars == <<vIn, vOut>>
vars == <<cwd, dirs, files, pc, args, called, vres, pk, stdout, exit,
          dirs0, files0, runs, vIn, vOut>>

----------------------------------------------------------------------------
(* Bounds *)

MaxLines == 4
MaxRuns == 2

----------------------------------------------------------------------------
(* Lines of text *)

Delim == [kind |-> "delim", key |-> "", val |-> <<>>]
KV(k, v) == [kind |-> "kv", key |-> k, val |-> v]
PlainLine(s) == [kind |-> "plain", key |-> "", val |-> <<s>>]
IntLine(s) == [kind |-> "int", key |-> "", val |-> <<s>>]
ItemLine(s) == [kind |-> "item", key |-> "", val |-> <<s>>]
BadLine == [kind |-> "bad", key |-> "", val |-> <<>>]

\* The words a scalar's text contains (Python's substring test on str).
WordsIn(s) ==
    CASE s = "name description" -> {"name", "description"}
      [] s = "name" -> {"name"}
      [] s = "description" -> {"description"}
      [] OTHER -> {}

----------------------------------------------------------------------------
(* str.startswith("---") and str.split("---", 2) *)

DelimAt(content) == {i \in 1..Len(content) : content[i].kind = "delim"}

StartsWithDelim(content) == Len(content) > 0 /\ content[1].kind = "delim"

Min(S) == CHOOSE m \in S : \A n \in S : m <= n

\* split("---", 2): at most two splits, so at most three parts; the third
\* part keeps any further delimiter.
Split2(content) ==
    LET D == DelimAt(content) IN
    IF D = {} THEN <<content>>
    ELSE LET d1 == Min(D)
             R == D \ {d1}
         IN IF R = {} THEN <<SubSeq(content, 1, d1 - 1),
                             SubSeq(content, d1 + 1, Len(content))>>
            ELSE LET d2 == Min(R)
                 IN <<SubSeq(content, 1, d1 - 1),
                      SubSeq(content, d1 + 1, d2 - 1),
                      SubSeq(content, d2 + 1, Len(content))>>

----------------------------------------------------------------------------
(* yaml.safe_load, on the documents the line kinds can spell *)

PyNone == [type |-> "none", pairs |-> {}, elems |-> <<>>]
PyDict(p) == [type |-> "dict", pairs |-> p, elems |-> <<>>]
PyList(e) == [type |-> "list", pairs |-> {}, elems |-> e]
PyStr(e) == [type |-> "str", pairs |-> {}, elems |-> e]
PyInt(s) == [type |-> "int", pairs |-> {}, elems |-> <<s>>]
YAMLError == [type |-> "YAMLError", pairs |-> {}, elems |-> <<>>]

\* A block mapping: a later duplicate key replaces an earlier one.
DictPairs(doc) ==
    {<<doc[i].key, doc[i].val>> : i \in
        {j \in 1..Len(doc) : \A k \in (j + 1)..Len(doc) : doc[k].key # doc[j].key}}

safe_load(doc) ==
    IF Len(doc) = 0 THEN PyNone
    ELSE IF \E i \in 1..Len(doc) : doc[i].kind = "bad" THEN YAMLError
    ELSE IF doc[1].kind = "kv"
         THEN IF \A i \in 1..Len(doc) : doc[i].kind = "kv"
              THEN PyDict(DictPairs(doc)) ELSE YAMLError
    ELSE IF doc[1].kind = "item"
         THEN IF \A i \in 1..Len(doc) : doc[i].kind = "item"
              THEN PyList([i \in 1..Len(doc) |-> doc[i].val]) ELSE YAMLError
    ELSE \* a plain scalar, which later lines continue
         IF \E i \in 1..Len(doc) : doc[i].kind = "kv" THEN YAMLError
         ELSE IF Len(doc) = 1 /\ doc[1].kind = "int" THEN PyInt(doc[1].val[1])
         ELSE PyStr([i \in 1..Len(doc) |-> doc[i].val[1]])

----------------------------------------------------------------------------
(* Python's operators on the loaded value *)

\* bool(v)
Truthy(v) ==
    CASE v.type = "none" -> FALSE
      [] v.type = "dict" -> v.pairs # {}
      [] v.type = "list" -> Len(v.elems) > 0
      [] v.type = "str" -> Len(v.elems) > 0
      [] v.type = "int" -> v.elems[1] # "0"
      [] OTHER -> TRUE

\* `key in v`: "True", "False", or the exception it raises.
PyIn(key, v) ==
    CASE v.type = "dict" ->
            IF \E p \in v.pairs : p[1] = key THEN "True" ELSE "False"
      [] v.type = "list" ->
            IF \E i \in 1..Len(v.elems) : v.elems[i] = <<key>> THEN "True" ELSE "False"
      [] v.type = "str" ->
            IF \E i \in 1..Len(v.elems) : key \in WordsIn(v.elems[i])
            THEN "True" ELSE "False"
      [] OTHER -> "TypeError"

\* v[key]: [exc, val]
PyGetItem(v, key) ==
    IF v.type = "dict"
    THEN IF \E p \in v.pairs : p[1] = key
         THEN [exc |-> "", val |-> (CHOOSE p \in v.pairs : p[1] = key)[2]]
         ELSE [exc |-> "KeyError", val |-> <<>>]
    ELSE [exc |-> "TypeError", val |-> <<>>]

----------------------------------------------------------------------------
(* validate_skill *)

\* What skill_dir / "SKILL.md" is on disk.
NoNode == [node |-> "absent", text |-> <<>>]
DirNode == [node |-> "dir", text |-> <<>>]
FileNode(t) == [node |-> "file", text |-> t]

VResult(r, e, p) == [ret |-> r, exc |-> e, printed |-> p]
NoResult == VResult("none", "", <<>>)

validate_skill(md) ==
    IF md.node = "absent"
    THEN VResult("False", "", <<"SKILL.md not found">>)
    ELSE IF md.node = "dir"
    THEN VResult("raise", "IsADirectoryError", <<>>)
    ELSE IF ~StartsWithDelim(md.text)
    THEN VResult("False", "", <<"missing YAML frontmatter">>)
    ELSE LET parts == Split2(md.text) IN
    IF Len(parts) < 3
    THEN VResult("False", "", <<"Invalid YAML frontmatter format">>)
    ELSE LET metadata == safe_load(parts[2]) IN
    IF metadata.type = "YAMLError"
    THEN VResult("False", "", <<"Invalid YAML in frontmatter">>)
    ELSE IF ~Truthy(metadata)
    THEN VResult("False", "", <<"Empty YAML frontmatter">>)
    ELSE IF PyIn("name", metadata) = "TypeError"
    THEN VResult("raise", "TypeError", <<>>)
    ELSE IF PyIn("name", metadata) = "False"
    THEN VResult("False", "", <<"Missing required field: name">>)
    ELSE IF PyIn("description", metadata) = "False"
    THEN VResult("False", "", <<"Missing required field: description">>)
    ELSE VResult("True", "", <<>>)

----------------------------------------------------------------------------
(* validate_skill alone, on every SKILL.md of up to MaxLines lines *)

LineAlphabet ==
    {Delim, KV("name", <<"demo">>), KV("name", <<"..", "x">>),
     KV("description", <<"d">>), KV("other", <<"o">>),
     PlainLine("name description"), IntLine("5"), IntLine("0"),
     ItemLine("name"), ItemLine("description"), BadLine}

Contents == UNION {[1..n -> LineAlphabet] : n \in 0..MaxLines}

ValInputs == {NoNode, DirNode} \cup {FileNode(t) : t \in Contents}

----------------------------------------------------------------------------
(* pathlib: paths handled as text *)

Path(a, p) == [abs |-> a, parts |-> p]

\* Path.parent: the parent of "." is ".", the parent of "/" is "/".
Parent(p) ==
    IF Len(p.parts) = 0 THEN p
    ELSE Path(p.abs, SubSeq(p.parts, 1, Len(p.parts) - 1))

\* p / "<the string whose split on "/" is segs>"
JoinPath(p, segs) == Path(p.abs, p.parts \o SelectSeq(segs, LAMBDA c : c \notin {"", "."}))

IsPrefix(a, b) == Len(a) <= Len(b) /\ SubSeq(b, 1, Len(a)) = a

\* p.relative_to(other): [exc, parts]
RelativeTo(p, other) ==
    IF p.abs = other.abs /\ IsPrefix(other.parts, p.parts)
    THEN [exc |-> "", parts |-> SubSeq(p.parts, Len(other.parts) + 1, Len(p.parts))]
    ELSE [exc |-> "ValueError", parts |-> <<>>]

\* f"{skill_name}.skill", as its split on "/"
SkillFileName(segs) ==
    [i \in 1..Len(segs) |-> IF i = Len(segs) THEN segs[i] \o ".skill" ELSE segs[i]]

----------------------------------------------------------------------------
(* The file system *)

TextData(t) ==
    [kind |-> "text", text |-> t, entries |-> {}, nwrites |-> 0, complete |-> TRUE]
\* A file open for writing whose archive records are not yet flushed.
OpenData ==
    [kind |-> "open", text |-> <<>>, entries |-> {}, nwrites |-> 0, complete |-> FALSE]
\* An archive: its entries <<arcname, data>>, the number of entries written,
\* and whether the walk that wrote it ran to its end.
ZipData(e, n, c) ==
    [kind |-> "zip", text |-> <<>>, entries |-> e, nwrites |-> n, complete |-> c]

RECURSIVE Walk(_, _, _)
\* The kernel's path walk from directory cur: every component is looked up
\* in a directory, ".." steps to the parent.
Walk(D, cur, parts) ==
    IF Len(parts) = 0 THEN [ok |-> TRUE, path |-> cur]
    ELSE IF cur \notin D THEN [ok |-> FALSE, path |-> <<>>]
    ELSE IF Head(parts) = ".."
         THEN Walk(D, IF Len(cur) = 0 THEN cur ELSE SubSeq(cur, 1, Len(cur) - 1),
                   Tail(parts))
         ELSE Walk(D, Append(cur, Head(parts)), Tail(parts))

Resolve(D, p) == Walk(D, IF p.abs THEN <<>> ELSE cwd, p.parts)

\* Path.exists(), Path.is_dir()
Exists(D, F, p) ==
    LET r == Resolve(D, p) IN r.ok /\ (r.path \in D \/ r.path \in DOMAIN F)
IsDir(D, p) == LET r == Resolve(D, p) IN r.ok /\ r.path \in D

\* What validate_skill finds at a path.
NodeAt(D, F, p) ==
    LET r == Resolve(D, p) IN
    IF ~r.ok THEN NoNode
    ELSE IF r.path \in D THEN DirNode
    ELSE IF r.path \in DOMAIN F THEN FileNode(F[r.path].text)
    ELSE NoNode

Prefixes(a) == {SubSeq(a, 1, n) : n \in 0..Len(a)}

\* Path.mkdir(parents=True, exist_ok=True) of a path without "..":
\* [exc, dirs]
Mkdir(D, F, p) ==
    LET a == (IF p.abs THEN <<>> ELSE cwd) \o p.parts IN
    IF a \in DOMAIN F THEN [exc |-> "FileExistsError", dirs |-> D]
    ELSE IF \E q \in Prefixes(a) : q \in DOMAIN F
    THEN [exc |-> "NotADirectoryError", dirs |-> D]
    ELSE [exc |-> "", dirs |-> D \cup Prefixes(a)]

\* rglob("*") filtered by is_file(): the regular files under directory src.
FilesUnder(F, src) == {f \in DOMAIN F : IsPrefix(src, f) /\ f # src}

----------------------------------------------------------------------------
(* package_skill, step by step *)

NoPk == [skill_name |-> <<>>, output_file |-> Path(FALSE, <<>>), dest |-> <<>>,
         todo |-> {}, entries |-> {}, nwrites |-> 0, exc |-> "", returned |-> FALSE]

\* Lines 80-84: the name read back from SKILL.md: [exc, val]
ReadSkillName(D, F, skill_dir) ==
    LET md == NodeAt(D, F, JoinPath(skill_dir, <<"SKILL.md">>)) IN
    IF md.node # "file" THEN [exc |-> "OSError", val |-> <<>>]
    ELSE LET parts == Split2(md.text) IN
    IF Len(parts) < 2 THEN [exc |-> "IndexError", val |-> <<>>]
    ELSE LET metadata == safe_load(parts[2]) IN
    IF metadata.type = "YAMLError" THEN [exc |-> "YAMLError", val |-> <<>>]
    ELSE IF metadata.type = "none" THEN [exc |-> "TypeError", val |-> <<>>]
    ELSE PyGetItem(metadata, "name")

\* Line 90
OutputFile(output_dir, skill_name) == JoinPath(output_dir, SkillFileName(skill_name))

\* A bug: the archive is opened in mode "a", which keeps what the file held.
ZipOpenData_Append(old) == old

\* Line 93, zipfile.ZipFile(output_file, "w"): what the file holds once
\* opened, given what it held (mode "w" truncates).
ZipOpenData(old) == OpenData

\* Line 98: the archive name of the file at absolute path f.
ArcName(skill_dir, src, f) ==
    LET rel == SubSeq(f, Len(src) + 1, Len(f))
        file_path == Path(skill_dir.abs, skill_dir.parts \o rel)
    IN RelativeTo(file_path, Parent(skill_dir)).parts

----------------------------------------------------------------------------
(* main *)

SkillMd == <<"w", "demo", "SKILL.md">>
BFile == <<"w", "demo", "sub", "b.txt">>
SourceDir == <<"w", "demo">>
BText == <<PlainLine("b")>>

Name(v) == KV("name", v)
Desc == KV("description", <<"d">>)

\* The SKILL.md files a run is tried on.
MainDocs ==
    {NoNode, DirNode,
     FileNode(<<Delim, Name(<<"demo">>), Desc, Delim, PlainLine("body")>>),
     FileNode(<<Delim, Name(<<"..", "x">>), Desc, Delim>>),
     FileNode(<<Delim, PlainLine("name description"), Delim>>),
     FileNode(<<Delim, ItemLine("name"), ItemLine("description"), Delim>>),
     FileNode(<<Delim, IntLine("5"), Delim>>),
     FileNode(<<Delim, Name(<<"demo">>), Delim>>),
     FileNode(<<Delim, Desc, Delim>>),
     FileNode(<<Delim, Name(<<"demo">>), Desc>>),
     FileNode(<<Name(<<"demo">>), Desc>>),
     FileNode(<<Delim, BadLine, Delim>>),
     FileNode(<<Delim, Delim>>)}

Cwds == {<<"w">>, <<"w", "demo">>}

SkillDirArgs ==
    {Path(FALSE, <<"demo">>), Path(FALSE, <<>>), Path(TRUE, <<"w", "demo">>),
     Path(FALSE, <<"missing">>), Path(TRUE, BFile)}

\* Line 113: the default output directory is Path.cwd().
DefaultOutputDir == Path(TRUE, cwd)

OutputDirArgs ==
    {DefaultOutputDir, Path(FALSE, <<"out", "deep">>), Path(TRUE, SourceDir),
     Path(TRUE, BFile)}

\* A bug: the is_dir() check is left out.
PathCheck_ExistsOnly(D, F, skill_dir) ==
    IF ~Exists(D, F, skill_dir) THEN "Skill directory not found" ELSE "ok"

\* Lines 120-126: the two path checks.
PathCheck(D, F, skill_dir) ==
    IF ~Exists(D, F, skill_dir) THEN "Skill directory not found"
    ELSE IF ~IsDir(D, skill_dir) THEN "Not a directory"
    ELSE "ok"

\* A bug: the verdict of validate_skill is ignored.
AfterValidate_Ignored(v) == "package"

\* Lines 133-136: where main goes after validate_skill.
AfterValidate(v) == IF v.ret = "True" THEN "package" ELSE "exited"

\* A bug: the handler prints the diagnostic and returns.
PackagingErrorStatus_Zero == "0"

\* Lines 142-144: the status main exits with on a packaging exception.
PackagingErrorStatus == "1"

\* Lines 147-148: the interpreter's status for an exception nothing catches.
UncaughtStatus == "1"

Start(sd, od) ==
    /\ pc \in {"idle", "exited"}
    /\ runs < MaxRuns
    /\ args' = [skill_dir |-> sd, output_dir |-> od]
    /\ pc' = "paths"
    /\ called' = <<>>
    /\ vres' = NoResult
    /\ pk' = NoPk
    /\ stdout' = <<>>
    /\ exit' = "running"
    /\ dirs0' = dirs
    /\ files0' = files
    /\ runs' = runs + 1
    /\ UNCHANGED <<cwd, dirs, files, valVars>>

CheckPaths ==
    /\ pc = "paths"
    /\ LET c == PathCheck(dirs, files, args.skill_dir) IN
       IF c # "ok"
       THEN /\ stdout' = Append(stdout, c)
            /\ exit' = "1"
            /\ pc' = "exited"
       ELSE /\ pc' = "validate"
            /\ UNCHANGED <<stdout, exit>>
    /\ UNCHANGED <<cwd, dirs, files, args, called, vres, pk, dirs0, files0,
                   runs, valVars>>

Validate ==
    /\ pc = "validate"
    /\ LET v == validate_skill(NodeAt(dirs, files,
                                      JoinPath(args.skill_dir, <<"SKILL.md">>)))
       IN /\ vres' = v
          /\ IF v.ret = "raise"
             THEN /\ stdout' = Append(stdout, "Traceback")
                  /\ exit' = UncaughtStatus
                  /\ pc' = "exited"
             ELSE /\ stdout' = stdout \o v.printed
                  /\ pc' = AfterValidate(v)
                  /\ exit' = IF AfterValidate(v) = "exited" THEN "1" ELSE exit
    /\ called' = Append(called, "validate_skill")
    /\ UNCHANGED <<cwd, dirs, files, args, pk, dirs0, files0, runs, valVars>>

\* Lines 142-144: the exception handler around package_skill.
Caught ==
    /\ stdout' = Append(stdout, "Error packaging skill")
    /\ exit' = PackagingErrorStatus
    /\ pc' = "exited"

PackageRead ==
    /\ pc = "package"
    /\ LET r == ReadSkillName(dirs, files, args.skill_dir) IN
       IF r.exc # ""
       THEN Caught /\ pk' = [pk EXCEPT !.exc = r.exc]
       ELSE /\ pk' = [pk EXCEPT !.skill_name = r.val]
            /\ pc' = "mkdir"
            /\ UNCHANGED <<stdout, exit>>
    /\ called' = Append(called, "package_skill")
    /\ UNCHANGED <<cwd, dirs, files, args, vres, dirs0, files0, runs, valVars>>

PackageMkdir ==
    /\ pc = "mkdir"
    /\ LET r == Mkdir(dirs, files, args.output_dir) IN
       IF r.exc # ""
       THEN Caught /\ pk' = [pk EXCEPT !.exc = r.exc] /\ UNCHANGED dirs
       ELSE /\ dirs' = r.dirs
            /\ pc' = "open"
            /\ UNCHANGED <<stdout, exit, pk>>
    /\ UNCHANGED <<cwd, files, args, called, vres, dirs0, files0, runs,
                   valVars>>

PackageOpen ==
    /\ pc = "open"
    /\ LET of == OutputFile(args.output_dir, pk.skill_name)
           r == Resolve(dirs, of)
       IN IF ~r.ok \/ r.path \in dirs
          THEN /\ Caught
               /\ pk' = [pk EXCEPT !.output_file = of,
                                   !.exc = IF r.ok THEN "IsADirectoryError"
                                           ELSE "FileNotFoundError"]
               /\ UNCHANGED files
          ELSE LET old == IF r.path \in DOMAIN files THEN files[r.path] ELSE OpenData
                   F == (r.path :> ZipOpenData(old)) @@ files
               IN /\ files' = F
                  /\ pk' = [pk EXCEPT !.output_file = of, !.dest = r.path,
                                      !.entries = ZipOpenData(old).entries,
                                      !.nwrites = ZipOpenData(old).nwrites,
                                      !.todo = FilesUnder(F,
                                                 Resolve(dirs, args.skill_dir).path)]
                  /\ pc' = "walk"
                  /\ UNCHANGED <<stdout, exit>>
    /\ UNCHANGED <<cwd, dirs, args, called, vres, dirs0, files0, runs, valVars>>

\* Lines 95-100: one file of the walk is written into the archive.
WalkStep ==
    /\ pc = "walk"
    /\ \E f \in pk.todo :
         pk' = [pk EXCEPT
                  !.todo = @ \ {f},
                  !.entries = @ \cup {<<ArcName(args.skill_dir,
                                               Resolve(dirs, args.skill_dir).path, f),
                                        files[f]>>},
                  !.nwrites = @ + 1]
    /\ UNCHANGED <<cwd, dirs, files, pc, args, called, vres, stdout, exit,
                   dirs0, files0, runs, valVars>>

\* Line 99 raises OSError: the with block closes the archive as far as it
\* got, and main's handler reports the failure.
WalkFail ==
    /\ pc = "walk"
    /\ pk.todo # {}
    /\ files' = [files EXCEPT ![pk.dest] = ZipData(pk.entries, pk.nwrites, FALSE)]
    /\ pk' = [pk EXCEPT !.exc = "OSError"]
    /\ Caught
    /\ UNCHANGED <<cwd, dirs, args, called, vres, dirs0, files0, runs, valVars>>

\* Lines 93, 102, 141: the walk is over, the archive is closed and main
\* returns.
PackageClose ==
    /\ pc = "walk"
    /\ pk.todo = {}
    /\ files' = [files EXCEPT ![pk.dest] = ZipData(pk.entries, pk.nwrites, TRUE)]
    /\ pk' = [pk EXCEPT !.returned = TRUE]
    /\ stdout' = Append(stdout, "Successfully packaged skill")
    /\ exit' = "0"
    /\ pc' = "exited"
    /\ UNCHANGED <<cwd, dirs, args, called, vres, dirs0, files0, runs, valVars>>

\* Between runs, at the shell, the user edits sub/b.txt, once (a line is
\* appended).
EditSource ==
    /\ pc \in {"idle", "exited"}
    /\ BFile \in DOMAIN files
    /\ files[BFile] = TextData(BText)
    /\ files' = [files EXCEPT ![BFile] = TextData(Append(BText, PlainLine("more")))]
    /\ pc' = "idle"
    /\ UNCHANGED <<cwd, dirs, args, called, vres, pk, stdout, exit,
                   dirs0, files0, runs, valVars>>

InitFiles(md) ==
    LET base == (BFile :> TextData(BText))
    IN IF md.node = "file" THEN (SkillMd :> TextData(md.text)) @@ base ELSE base

InitDirs(md) ==
    {<<>>, <<"w">>, SourceDir, <<"w", "demo", "sub">>}
        \cup (IF md.node = "dir" THEN {SkillMd} ELSE {})

MainIdle ==
    /\ pc = "idle"
    /\ args = [skill_dir |-> Path(FALSE, <<>>), output_dir |-> Path(FALSE, <<>>)]
    /\ called = <<>>
    /\ vres = NoResult
    /\ pk = NoPk
    /\ stdout = <<>>
    /\ exit = "none"
    /\ runs = 0

Init ==
    /\ cwd \in Cwds
    /\ \E md \in MainDocs :
         /\ dirs = InitDirs(md)
         /\ files = InitFiles(md)
    /\ dirs0 = dirs
    /\ files0 = files
    /\ MainIdle
    /\ vIn = NoNode
    /\ vOut = NoResult

Next ==
    \/ \E sd \in SkillDirArgs, od \in OutputDirArgs : Start(sd, od)
    \/ CheckPaths
    \/ Validate
    \/ PackageRead
    \/ PackageMkdir
    \/ PackageOpen
    \/ WalkStep
    \/ WalkFail
    \/ PackageClose
    \/ EditSource

Spec == Init /\ [][Next]_vars

----------------------------------------------------------------------------
(* validate_skill alone *)

ValidateCall ==
    /\ vOut = NoResult
    /\ vOut' = validate_skill(vIn)
    /\ UNCHANGED <<vIn, mainVars>>

InitValidate ==
    /\ vIn \in ValInputs
    /\ vOut = NoResult
    /\ cwd = <<"w">>
    /\ dirs = InitDirs(NoNode)
    /\ files = InitFiles(NoNode)
    /\ dirs0 = dirs
    /\ files0 = files
    /\ MainIdle

NextValidate == ValidateCall

SpecValidate == InitValidate /\ [][NextValidate]_vars

----------------------------------------------------------------------------
(* Claims about validate_skill, checked under SpecValidate *)

\* The block between the first two delimiters of a SKILL.md, and whether
\* the file is what the specification calls well formed.
FrontMatter(md) == Split2(md.text)[2]

WellFormed(md) ==
    /\ md.node = "file"
    /\ StartsWithDelim(md.text)
    /\ Cardinality(DelimAt(md.text)) >= 2
    /\ safe_load(FrontMatter(md)).type = "dict"
    /\ safe_load(FrontMatter(md)).pairs # {}
    /\ \E p \in safe_load(FrontMatter(md)).pairs : p[1] = "name"
    /\ \E p \in safe_load(FrontMatter(md)).pairs : p[1] = "description"

\* C1: validate_skill returns True exactly when SKILL.md exists, begins with
\* the delimiter, has two delimiters, and the block between them parses as a
\* non-empty key-value mapping with a name key and a description key; for
\* every other content of SKILL.md it returns False.
C1_TrueIffWellFormed ==
    (vOut # NoResult /\ vIn.node # "dir") =>
        /\ (vOut.ret = "True") <=> WellFormed(vIn)
        /\ ~WellFormed(vIn) => vOut.ret = "False"

\* C2: validate_skill never raises: it ends by returning a boolean, having
\* printed exactly one diagnostic line when it returns False and none when it
\* returns True.
C2_NeverRaises ==
    vOut # NoResult =>
        /\ vOut.ret \in {"True", "False"}
        /\ Len(vOut.printed) = (IF vOut.ret = "False" THEN 1 ELSE 0)

----------------------------------------------------------------------------
(* Claims about a run of main, checked under Spec *)

HasCalled(fn) == \E i \in 1..Len(called) : called[i] = fn

\* The source path as it was when the run started.
SourceAtStart == Resolve(dirs0, args.skill_dir)
SourceWasDir == SourceAtStart.ok /\ SourceAtStart.path \in dirs0

\* The output directory's absolute path.
OutputDirAbs == (IF args.output_dir.abs THEN <<>> ELSE cwd) \o args.output_dir.parts

\* C3: in a run in which validate_skill returns False, package_skill is never
\* called: the run exits with status 1, the output directory is not created
\* and no file is created or modified.
C3_FailedValidationStopsRun ==
    vres.ret = "False" =>
        /\ pc \in {"exited", "idle"}
        /\ ~HasCalled("package_skill")
        /\ exit = "1"
        /\ pc = "exited" => (dirs = dirs0 /\ files = files0)

C3_Witness ==
    /\ pc = "exited"
    /\ vres.ret = "False"
    /\ exit = "1"
    /\ args.output_dir = Path(FALSE, <<"out", "deep">>)
    /\ OutputDirAbs \notin dirs
    /\ SourceWasDir

\* C4: when the source path does not exist or is not a directory, the run
\* exits with status 1 before validate_skill or package_skill is called, and
\* writes nothing to the file system.
C4_PathChecksFirst ==
    (pc \notin {"idle", "paths"} /\ ~SourceWasDir) =>
        /\ pc = "exited"
        /\ exit = "1"
        /\ called = <<>>
        /\ dirs = dirs0
        /\ files = files0

C4_Witness ==
    /\ pc = "exited"
    /\ exit = "1"
    /\ called = <<>>
    /\ SourceAtStart.ok
    /\ SourceAtStart.path \in DOMAIN files0

Running == pc \notin {"idle", "exited"}

ExitStatusRight ==
    /\ pc = "exited" =>
        /\ exit \in {"0", "1"}
        /\ (exit = "0") <=> (SourceWasDir /\ vres.ret = "True" /\ pk.returned)
    /\ Running =>
        /\ exit = "running"
        \* each of these positions has a step whose only guard is the position
        \* (at "walk": WalkStep while files are left, PackageClose when none is)
        /\ pc \in {"paths", "validate", "package", "mkdir", "open", "walk"}

\* The number of steps a run can still take, at most.
Rank ==
    LET n == Cardinality(DOMAIN files) IN
    CASE pc = "paths" -> n + 7
      [] pc = "validate" -> n + 6
      [] pc = "package" -> n + 5
      [] pc = "mkdir" -> n + 4
      [] pc = "open" -> n + 3
      [] pc = "walk" -> Cardinality(pk.todo) + 1
      [] OTHER -> 0

\* C5: every run that is started ends (it is never stuck, and each of its
\* steps brings the end nearer), with exit status 0 or 1: 0 exactly when the
\* path checks passed, validate_skill returned True and package_skill
\* returned an output path, 1 in every other case.
C5_ExitStatus == []ExitStatusRight /\ [][Running => Rank' < Rank]_vars

C5_Witness ==
    /\ pc = "exited"
    /\ exit = "1"
    /\ HasCalled("package_skill")
    /\ pk.exc # ""
    /\ stdout = <<"Error packaging skill">>

\* C6: when package_skill returns, the archive's entries are exactly the
\* regular files under the source directory, each stored once under
\* <the source directory's own name>/<the file's path relative to it>.
ExpectedNames ==
    LET src == SourceAtStart.path IN
    {<<src[Len(src)]>> \o SubSeq(f, Len(src) + 1, Len(f)) : f \in FilesUnder(files, src)}

C6_EntriesUnderDirectoryName ==
    (pc = "exited" /\ exit = "0") =>
        /\ {e[1] : e \in files[pk.dest].entries} = ExpectedNames
        /\ files[pk.dest].nwrites = Cardinality(ExpectedNames)

\* C7: whenever validate_skill returned True, package_skill's lookup of name
\* in the re-parsed block succeeds, and the output file is named
\* <name>.skill.
C7_ValidationAndNamingAgree ==
    (vres.ret = "True" /\ HasCalled("package_skill")) =>
        /\ pk.exc \notin {"TypeError", "KeyError", "YAMLError", "IndexError"}
        /\ pk.skill_name # <<>>
        /\ pk.output_file.parts # <<>> =>
              pk.output_file = JoinPath(args.output_dir, SkillFileName(pk.skill_name))

\* C8: the files under the source directory and their contents are the same
\* after a run as before it, whatever the output directory.
C8_SourceUnchanged ==
    (pc = "exited" /\ SourceWasDir) =>
        LET src == SourceAtStart.path IN
        /\ FilesUnder(files, src) = FilesUnder(files0, src)
        /\ \A f \in FilesUnder(files0, src) : files[f] = files0[f]
        /\ {d \in dirs : IsPrefix(src, d)} = {d \in dirs0 : IsPrefix(src, d)}

\* C9: after a successful run the archive at the destination holds exactly
\* the source's files as they were during that run, whatever the destination
\* held before.
SourceSnapshot ==
    LET src == SourceAtStart.path IN
    {<<ArcName(args.skill_dir, src, f), IF f = pk.dest THEN OpenData ELSE files[f]>> :
        f \in FilesUnder(files, src)}

C9_ArchiveReflectsLastRun ==
    (pc = "exited" /\ exit = "0") =>
        files[pk.dest] = ZipData(SourceSnapshot, Cardinality(SourceSnapshot), TRUE)

C9_Witness ==
    /\ pc = "exited"
    /\ exit = "0"
    /\ pk.dest \in DOMAIN files0
    /\ files0[pk.dest].kind = "zip"
    /\ ~files0[pk.dest].complete
    /\ files0[pk.dest].entries # files[pk.dest].entries

\* C10: the archive is written directly inside the output directory, under
\* the file name <name>.skill.
C10_ArchiveInsideOutputDir ==
    (pc = "exited" /\ exit = "0") =>
        /\ Len(pk.dest) = Len(OutputDirAbs) + 1
        /\ IsPrefix(OutputDirAbs, pk.dest)

====
